---- MODULE Spec2Model ----
(***************************************************************************)
(* Voltage.Pricer: quantitative sourcing and risk engine.                  *)
(*                                                                         *)
(* Floating-point quantities are modelled as exact rationals [n, d] in     *)
(* lowest terms (d > 0), so a normalisation, a weighted average or a       *)
(* rounding is computed the way the code computes it and can disagree with *)
(* what the documentation says about it.                                   *)
(***************************************************************************)
EXTENDS Integers, Sequences, FiniteSets, TLC

VARIABLES
    op,              \* name of the operation that produced ret ("none" before any call)
    args,            \* the inputs of the call under study
    ret,             \* the value returned by the call (None before any call)
    locals,          \* named intermediate values of the call (None before any call)
    market_prices,   \* app.py MARKET_PRICES: the market-anchor mapping
    engine,          \* "absent" or "built": the ElectricityPricingEngine of the run
    spot_reference,  \* MLPriceForecaster.spot_reference
    is_trained,      \* MLPriceForecaster.is_trained
    model,           \* MLPriceForecaster.model: Unfitted or the fitted predictor
    metrics,         \* MLPriceForecaster.metrics
    fits             \* number of times model.fit has run on this instance

vars == <<op, args, ret, locals, market_prices, engine, spot_reference, is_trained,
          model, metrics, fits>>

fvars == <<market_prices, engine, spot_reference, is_trained, model, metrics, fits>>

(* Python None; also the value of ret before any call has returned.          *)
None == [none |-> TRUE]

(* no pricing engine and no forecaster exist                               *)
ForecasterIdle ==
    /\ market_prices = None
    /\ engine = "absent"
    /\ spot_reference = None
    /\ is_trained = FALSE
    /\ model = None
    /\ metrics = None
    /\ fits = 0

-----------------------------------------------------------------------------
(* Rational arithmetic standing for Python / numpy float arithmetic.       *)

Abs(x) == IF x < 0 THEN -x ELSE x

RECURSIVE GCD(_, _)
GCD(a, b) == IF b = 0 THEN a ELSE GCD(b, a % b)

Rat(n, d) ==
    LET s == IF d < 0 THEN -1 ELSE 1
        g == GCD(Abs(n), Abs(d))
    IN  [n |-> (s * n) \div g, d |-> (s * d) \div g]

R(i) == [n |-> i, d |-> 1]

Zero == R(0)

RAdd(a, b) == Rat(a.n * b.d + b.n * a.d, a.d * b.d)
RSub(a, b) == Rat(a.n * b.d - b.n * a.d, a.d * b.d)
RMul(a, b) == Rat(a.n * b.n, a.d * b.d)
RDiv(a, b) == Rat(a.n * b.d, a.d * b.n)
RLt(a, b)  == a.n * b.d < b.n * a.d
RLe(a, b)  == a.n * b.d <= b.n * a.d
RMin(a, b) == IF RLt(b, a) THEN b ELSE a
RMax(a, b) == IF RLt(a, b) THEN b ELSE a

(* round(x, 2): nearest multiple of 0.01, ties to the even cent.           *)
Round(x, ndigits) ==
    LET p == IF ndigits = 2 THEN 100 ELSE 10
        q == x.n \div x.d
        a == (x.n - q * x.d) * p
        f == q * p + a \div x.d
        r == a - (a \div x.d) * x.d
        c == IF 2 * r < x.d THEN f
             ELSE IF 2 * r > x.d THEN f + 1
             ELSE IF f % 2 = 0 THEN f ELSE f + 1
    IN  Rat(c, p)

-----------------------------------------------------------------------------
(* pandas Series: an index (timestamps, in hours) and as many values.      *)
(* A missing value is NaN; sum() and mean() skip NaN (skipna).              *)

NaN == [nan |-> TRUE]

Series(index, values) == [index |-> index, values |-> values]

EmptySeries == Series(<<>>, <<>>)

IsEmpty(s) == Len(s.index) = 0

RECURSIVE SumSeq(_)
SumSeq(vs) ==
    IF vs = <<>> THEN Zero
    ELSE IF Head(vs) = NaN THEN SumSeq(Tail(vs))
    ELSE RAdd(Head(vs), SumSeq(Tail(vs)))

RECURSIVE CountSeq(_)
CountSeq(vs) ==
    IF vs = <<>> THEN 0
    ELSE (IF Head(vs) = NaN THEN 0 ELSE 1) + CountSeq(Tail(vs))

SeriesSum(s) == SumSeq(s.values)

SeriesFirst(s) ==
    IF CountSeq(s.values) = 0 THEN NaN ELSE s.values[1]

(* mean of an empty (or all-NaN) series is NaN                              *)
SeriesMean(s) ==
    IF CountSeq(s.values) = 0 THEN NaN
    ELSE RDiv(SumSeq(s.values), R(CountSeq(s.values)))

Range(f) == {f[i] : i \in DOMAIN f}

RECURSIVE SortedSeq(_)
SortedSeq(S) ==
    IF S = {} THEN <<>>
    ELSE LET m == CHOOSE x \in S : \A y \in S : x <= y
         IN  <<m>> \o SortedSeq(S \ {m})

ValueAt(s, t) ==
    IF t \in Range(s.index)
    THEN s.values[CHOOSE i \in DOMAIN s.index : s.index[i] = t]
    ELSE NaN

(* a * b: element by element when the two indexes are identical, otherwise  *)
(* aligned on the sorted union of the labels, NaN where a label is missing  *)
(* on either side.                                                          *)
SeriesMul(a, b) ==
    IF a.index = b.index
    THEN Series(a.index, [i \in DOMAIN a.index |->
                    IF a.values[i] = NaN \/ b.values[i] = NaN THEN NaN
                    ELSE RMul(a.values[i], b.values[i])])
    ELSE LET idx == SortedSeq(Range(a.index) \cup Range(b.index))
         IN  Series(idx, [i \in DOMAIN idx |->
                    IF ValueAt(a, idx[i]) = NaN \/ ValueAt(b, idx[i]) = NaN
                    THEN NaN
                    ELSE RMul(ValueAt(a, idx[i]), ValueAt(b, idx[i]))])

-----------------------------------------------------------------------------
(* Risk engine (src/domain/risk_models.py).                                *)

ProfilingCostClipped(load_curve, hpfc) ==
    IF IsEmpty(load_curve) \/ IsEmpty(hpfc) THEN Zero
    ELSE LET total_volume == SeriesSum(load_curve)
         IN  IF total_volume = Zero THEN Zero
             ELSE LET market_baseload_price == SeriesMean(hpfc)
                      client_capture_price ==
                          RDiv(SeriesSum(SeriesMul(load_curve, hpfc)), total_volume)
                  IN  RMax(Round(RSub(client_capture_price,
                                      market_baseload_price), 2), Zero)

calculate_profiling_cost(load_curve, hpfc) ==
    IF IsEmpty(load_curve) \/ IsEmpty(hpfc) THEN Zero
    ELSE LET total_volume == SeriesSum(load_curve)
         IN  IF total_volume = Zero THEN Zero
             ELSE LET market_baseload_price == SeriesMean(hpfc)
                      client_capture_price ==
                          RDiv(SeriesSum(SeriesMul(load_curve, hpfc)), total_volume)
                      profiling_cost ==
                          RSub(client_capture_price, market_baseload_price)
                  IN  Round(profiling_cost, 2)

base_risk_premium == R(1)

volatility_coefficient == R(5)

premium_cap == R(15)

(* the if / elif chain on volume_mwh, in the order the code tests it        *)
SizeFactorGrowing(volume_mwh) ==
    IF RLt(volume_mwh, R(2000)) THEN R(1) ELSE Rat(3, 2)

SizeFactor(volume_mwh) ==
    IF RLt(volume_mwh, R(2000)) THEN Rat(3, 2)
    ELSE IF RLt(volume_mwh, R(500)) THEN R(2)
    ELSE R(1)

VolumeRiskUncapped(volume_mwh, spot_volatility) ==
    LET vol_component == RMul(volatility_coefficient, spot_volatility)
        size_factor == SizeFactor(volume_mwh)
        premium == RMul(RAdd(base_risk_premium, vol_component), size_factor)
    IN  [size_factor |-> size_factor,
         premium |-> premium,
         value |-> Round(premium, 2)]

(* returns the locals size_factor and premium next to the returned value    *)
calculate_volume_risk_premium(volume_mwh, spot_volatility) ==
    LET vol_component == RMul(volatility_coefficient, spot_volatility)
        size_factor == SizeFactor(volume_mwh)
        premium == RMul(RAdd(base_risk_premium, vol_component), size_factor)
    IN  [size_factor |-> size_factor,
         premium |-> premium,
         value |-> Round(RMin(premium, premium_cap), 2)]

-----------------------------------------------------------------------------
(* Inputs of the risk specification.                                       *)

MaxLen == 3

HourIndex(k) == [i \in 1..k |-> i - 1]

LoadLevels == {R(0), R(1), R(2)}

PriceLevels == {R(0), R(50), R(101)}

SeriesOver(levels) ==
    UNION {{Series(HourIndex(k), vs) : vs \in [1..k -> levels]} : k \in 0..MaxLen}

ProfilingArgs ==
    [fn : {"calculate_profiling_cost"},
     load_curve : SeriesOver(LoadLevels), hpfc : SeriesOver(PriceLevels)]

Volumes == {R(0), R(100), R(499), Rat(49999, 100), R(500), R(501), R(1000),
            R(1999), Rat(199999, 100), R(2000), R(2001), R(15000)}

Volatilities == {R(0), Rat(15, 100), Rat(25, 100), Rat(80, 100), R(2)}

VolumeArgs ==
    [fn : {"calculate_volume_risk_premium"},
     volume_mwh : Volumes, spot_volatility : Volatilities]

InitRisk ==
    /\ op = "none"
    /\ args \in ProfilingArgs \cup VolumeArgs
    /\ ret = None
    /\ locals = None
    /\ ForecasterIdle

CalculateProfilingCost ==
    /\ op = "none"
    /\ args.fn = "calculate_profiling_cost"
    /\ op' = "calculate_profiling_cost"
    /\ ret' = calculate_profiling_cost(args.load_curve, args.hpfc)
    /\ locals' = [total_volume |-> SeriesSum(args.load_curve)]
    /\ UNCHANGED <<args, fvars>>

CalculateVolumeRiskPremium ==
    /\ op = "none"
    /\ args.fn = "calculate_volume_risk_premium"
    /\ op' = "calculate_volume_risk_premium"
    /\ LET r == calculate_volume_risk_premium(args.volume_mwh, args.spot_volatility)
       IN  /\ ret' = r.value
           /\ locals' = [size_factor |-> r.size_factor, premium |-> r.premium]
    /\ UNCHANGED <<args, fvars>>

NextRisk == CalculateProfilingCost \/ CalculateVolumeRiskPremium

SpecRisk == InitRisk /\ [][NextRisk]_vars

ProfilingDone == op = "calculate_profiling_cost"

VolumeRiskDone == op = "calculate_volume_risk_premium"

(* sum(load x hpfc) / sum(load) - mean(hpfc); the product is taken on the   *)
(* timestamps the two series share                                           *)
ExactSpread(load_curve, hpfc) ==
    LET common == Range(load_curve.index) \cap Range(hpfc.index)
        labels == SortedSeq(common)
        products == [k \in DOMAIN labels |->
                        RMul(ValueAt(load_curve, labels[k]), ValueAt(hpfc, labels[k]))]
    IN  RSub(RDiv(SumSeq(products), SumSeq(load_curve.values)),
             RDiv(SumSeq(hpfc.values), R(Len(hpfc.values))))

ProfilingDefined ==
    /\ ~IsEmpty(args.load_curve)
    /\ ~IsEmpty(args.hpfc)
    /\ SumSeq(args.load_curve.values) # Zero

ProfilingDegenerate ==
    \/ IsEmpty(args.load_curve)
    \/ IsEmpty(args.hpfc)
    \/ SumSeq(args.load_curve.values) = Zero

(* C3 as stated: calculate_profiling_cost returns exactly                  *)
(* sum(load x hpfc) / sum(load) - mean(hpfc) when both series are non-empty *)
(* and sum(load) is not 0, and 0.0 when a series is empty or sum(load) = 0. *)
C3_Original ==
    /\ (ProfilingDone /\ ProfilingDefined) =>
           ret = ExactSpread(args.load_curve, args.hpfc)
    /\ (ProfilingDone /\ ProfilingDegenerate) => ret = Zero

(* C3 amended: the returned value is that spread rounded to 2 decimals,    *)
(* not clipped (it is negative when the load sits in the cheap hours), and  *)
(* 0.0 when a series is empty or sum(load) = 0.                             *)
C3_ProfilingCostRounded ==
    /\ (ProfilingDone /\ ProfilingDefined) =>
           ret = Round(ExactSpread(args.load_curve, args.hpfc), 2)
    /\ (ProfilingDone /\ ProfilingDegenerate) => ret = Zero

C3_Witness ==
    /\ ProfilingDone
    /\ ProfilingDefined
    /\ args.load_curve.index = args.hpfc.index
    /\ RLt(ret, Zero)
    /\ ret # ExactSpread(args.load_curve, args.hpfc)

ClaimedSizeFactor(v) ==
    IF RLe(R(2000), v) THEN R(1)
    ELSE IF RLe(R(500), v) THEN Rat(3, 2)
    ELSE R(2)

(* C4: calculate_volume_risk_premium applies size_factor 1.0 for           *)
(* total_volume >= 2000, 1.5 for 500 <= total_volume < 2000 and 2.0 for     *)
(* total_volume < 500, in premium = (1.0 + 5.0 x volatility) x size_factor  *)
(* computed before the cap.                                                 *)
C4_SizeFactorSteps ==
    VolumeRiskDone =>
        /\ locals.size_factor = ClaimedSizeFactor(args.volume_mwh)
        /\ locals.premium =
               RMul(RAdd(R(1), RMul(R(5), args.spot_volatility)),
                    ClaimedSizeFactor(args.volume_mwh))

FlatLoad ==
    /\ ~IsEmpty(args.load_curve)
    /\ args.load_curve.index = args.hpfc.index
    /\ args.load_curve.values[1] # Zero
    /\ \A i \in DOMAIN args.load_curve.values :
           args.load_curve.values[i] = args.load_curve.values[1]

(* C17: for every load curve that holds the same non-zero value at every    *)
(* timestamp and every HPFC on the same timestamps, whatever its shape,     *)
(* calculate_profiling_cost returns exactly 0.                              *)
C17_FlatLoadCostsNothing ==
    (ProfilingDone /\ FlatLoad) => ret = Zero

C17_Witness ==
    /\ ProfilingDone
    /\ FlatLoad
    /\ Len(args.hpfc.values) = MaxLen
    /\ args.load_curve.values[1] = R(2)
    /\ \E i \in DOMAIN args.hpfc.values : args.hpfc.values[i] # args.hpfc.values[1]
    /\ ret = Zero

(* C18: for a fixed spot volatility, calculate_volume_risk_premium is       *)
(* monotonically non-increasing in total_volume: for all v1 <= v2,          *)
(* premium(v1) >= premium(v2).                                              *)
C18_PremiumNonIncreasing ==
    VolumeRiskDone =>
        \A v2 \in Volumes :
            RLe(args.volume_mwh, v2) =>
                RLe(calculate_volume_risk_premium(v2, args.spot_volatility).value,
                    ret)

C18_Witness ==
    /\ VolumeRiskDone
    /\ args.volume_mwh = R(1999)
    /\ RLt(calculate_volume_risk_premium(R(2000), args.spot_volatility).value, ret)

(* C19: for every total_volume and every spot volatility, the value         *)
(* returned by calculate_volume_risk_premium never exceeds the cap of 15.0. *)
C19_PremiumCapped ==
    VolumeRiskDone => RLe(ret, R(15))

C19_Witness ==
    /\ VolumeRiskDone
    /\ RLt(R(15), locals.premium)
    /\ ret = R(15)

-----------------------------------------------------------------------------
(* PPA valuation (src/domain/ppa_valuation.py).                            *)

(* str.upper() on the technology tags the model draws.                     *)
Upper(s) ==
    CASE s = "solar"         -> "SOLAR"
      [] s = "Solar"         -> "SOLAR"
      [] s = "onshore_wind"  -> "ONSHORE_WIND"
      [] s = "offshore_wind" -> "OFFSHORE_WIND"
      [] s = "hydro"         -> "HYDRO"
      [] OTHER               -> s

capture_map == [SOLAR |-> Rat(88, 100), ONSHORE_WIND |-> Rat(92, 100),
                OFFSHORE_WIND |-> Rat(96, 100)]

default_capture_rate == Rat(90, 100)

risk_buffer == Rat(15, 10)

(* capture_map.get(technology.upper(), 0.90)                               *)
CaptureRateDefaultsToSolar(technology) ==
    IF Upper(technology) \in DOMAIN capture_map
    THEN capture_map[Upper(technology)] ELSE capture_map["SOLAR"]

CaptureRate(technology) ==
    IF Upper(technology) \in DOMAIN capture_map
    THEN capture_map[Upper(technology)] ELSE default_capture_rate

PPAWithRate(capture_rate, baseload_price) ==
    LET fair_price == RSub(RMul(baseload_price, capture_rate), risk_buffer)
        cannibalization == RMul(baseload_price, RSub(R(1), capture_rate))
    IN  [fair_price |-> Round(fair_price, 2),
         capture_rate |-> Round(RMul(capture_rate, R(100)), 1),
         cannibalization_impact |-> Round(cannibalization, 2)]

PPANoBuffer(technology, baseload_price) ==
    LET capture_rate == CaptureRate(technology)
    IN  [fair_price |-> Round(RMul(baseload_price, capture_rate), 2),
         capture_rate |-> Round(RMul(capture_rate, R(100)), 1),
         cannibalization_impact |->
             Round(RMul(baseload_price, RSub(R(1), capture_rate)), 2)]

price_renewable_ppa(technology, baseload_price) ==
    PPAWithRate(CaptureRate(technology), baseload_price)

-----------------------------------------------------------------------------
(* Inputs of the PPA specification.                                        *)

Technologies == {"SOLAR", "ONSHORE_WIND", "OFFSHORE_WIND", "solar", "Solar",
                 "onshore_wind", "offshore_wind", "HYDRO", "hydro", "NUCLEAR",
                 "BIOMASS", ""}

(* baseload prices in cents: the sidebar default, its 0.5 steps, odd cents, *)
(* zero and a negative price.                                               *)
BaseloadCents == {-1000, 0, 5, 15, 1, 4999, 5000, 8500, 9500, 9550, 9600,
                  10001, 12345, 20000}

BaseloadPrices == {Rat(c, 100) : c \in BaseloadCents}

InitPPA ==
    /\ op = "none"
    /\ args \in [technology : Technologies, baseload_price : BaseloadPrices]
    /\ ret = None
    /\ locals = None
    /\ ForecasterIdle

PriceRenewablePPA ==
    /\ op = "none"
    /\ op' = "price_renewable_ppa"
    /\ ret' = price_renewable_ppa(args.technology, args.baseload_price)
    /\ locals' = [capture_rate |-> CaptureRate(args.technology)]
    /\ UNCHANGED <<args, fvars>>

NextPPA == PriceRenewablePPA

SpecPPA == InitPPA /\ [][NextPPA]_vars

PPADone == op = "price_renewable_ppa"

(* The documented table and formulas.                                        *)
ClaimedRate(tech) ==
    CASE tech = "SOLAR"         -> Rat(88, 100)
      [] tech = "ONSHORE_WIND"  -> Rat(92, 100)
      [] tech = "OFFSHORE_WIND" -> Rat(96, 100)

KnownTechnology(tech) == Upper(tech) \in {"SOLAR", "ONSHORE_WIND", "OFFSHORE_WIND"}

(* C9: price_renewable_ppa returns fair_price = round(baseload x rate - 1.5, 2) *)
(* and cannibalization_impact = round(baseload x (1 - rate), 2) with rate       *)
(* 0.88 / 0.92 / 0.96 for SOLAR / ONSHORE_WIND / OFFSHORE_WIND, solar lowest    *)
(* and offshore highest; (SOLAR, 95.50) gives 82.54 and 11.46.                  *)
C9_PPAFormula ==
    (PPADone /\ KnownTechnology(args.technology)) =>
        LET rate == ClaimedRate(Upper(args.technology))
            bp   == args.baseload_price
        IN  /\ ret.fair_price =
                   Round(RSub(RMul(bp, rate), Rat(3, 2)), 2)
            /\ ret.cannibalization_impact =
                   Round(RMul(bp, RSub(R(1), rate)), 2)
            /\ ret.capture_rate = RMul(rate, R(100))
            /\ RLt(capture_map["SOLAR"], capture_map["ONSHORE_WIND"])
            /\ RLt(capture_map["ONSHORE_WIND"], capture_map["OFFSHORE_WIND"])
            /\ (args.technology = "SOLAR" /\ bp = Rat(9550, 100)) =>
                   /\ ret.fair_price = Rat(8254, 100)
                   /\ ret.cannibalization_impact = Rat(1146, 100)

C9_Witness ==
    /\ PPADone
    /\ args.technology = "SOLAR"
    /\ args.baseload_price = Rat(9550, 100)
    /\ ret.fair_price = Rat(8254, 100)

(* C10: for a technology that is not in the capture-rate table after       *)
(* upper-casing, price_renewable_ppa returns a result (no failure) and it   *)
(* is exactly the result computed with capture rate 0.90.                   *)
C10_UnknownTechnologyDefault ==
    (PPADone /\ ~KnownTechnology(args.technology)) =>
        /\ ret # None
        /\ ret = PPAWithRate(Rat(9, 10), args.baseload_price)
        /\ ret.fair_price =
               Round(RSub(RMul(args.baseload_price, Rat(9, 10)), Rat(3, 2)), 2)

C10_Witness ==
    /\ PPADone
    /\ args.technology = "HYDRO"
    /\ args.baseload_price = Rat(9550, 100)
    /\ ret.fair_price = Rat(8445, 100)

-----------------------------------------------------------------------------
(* Calendar.  A timestamp is a number of hours since EpochYear-01-01 00:00. *)

EpochYear == 2026

IsLeap(y) == (y % 4 = 0 /\ y % 100 # 0) \/ y % 400 = 0

HoursInYear(y) == 24 * (IF IsLeap(y) THEN 366 ELSE 365)

RECURSIVE YearStart(_)
YearStart(y) == IF y <= EpochYear THEN 0 ELSE YearStart(y - 1) + HoursInYear(y - 1)

YearEnd(y) == YearStart(y) + HoursInYear(y) - 1

RECURSIVE YearFrom(_, _)
YearFrom(t, y) == IF t <= YearEnd(y) THEN y ELSE YearFrom(t, y + 1)

Year(t) == YearFrom(t, EpochYear)

(* day of week of January 1st, Monday = 0 (pandas dayofweek)                *)
Jan1DayOfWeek(y) ==
    (1 + 5 * ((y - 1) % 4) + 4 * ((y - 1) % 100) + 6 * ((y - 1) % 400) + 6) % 7

Hour(t) == t % 24

DayOfWeek(t) == (Jan1DayOfWeek(EpochYear) + t \div 24) % 7

DayOfYear(t) == (t - YearStart(Year(t))) \div 24 + 1

MonthLengths(y) ==
    <<31, IF IsLeap(y) THEN 29 ELSE 28, 31, 30, 31, 30, 31, 31, 30, 31, 30, 31>>

RECURSIVE MonthFrom(_, _, _)
MonthFrom(d, m, y) ==
    IF d <= MonthLengths(y)[m] THEN m ELSE MonthFrom(d - MonthLengths(y)[m], m + 1, y)

Month(t) == MonthFrom(DayOfYear(t), 1, Year(t))

(* The hourly year pd.date_range(f"{year}-01-01", f"{year}-12-31 23:00",    *)
(* freq="h") is carried by NumHours of its hours, one every GridStep hours  *)
(* from January 1st 00:00.                                                   *)
NumHours == 3

GridStep == 34

Dates(year) == [i \in 1..NumHours |-> YearStart(year) + (i - 1) * GridStep]

RECURSIVE DaysBefore(_, _)
DaysBefore(m, y) == IF m = 1 THEN 0 ELSE DaysBefore(m - 1, y) + MonthLengths(y)[m - 1]

(* pd.Timestamp of "y-m-d h:00"                                             *)
Timestamp(y, m, d, h) == YearStart(y) + 24 * (DaysBefore(m, y) + d - 1) + h

(* pd.date_range(start, end, freq="h"): every hour from start to end, both  *)
(* included                                                                 *)
date_range(start, end) == [i \in 1..(end - start + 1) |-> start + (i - 1)]

(* self.dates of LoadCurveGenerator(year), in full                          *)
GeneratorDates(year) ==
    date_range(Timestamp(year, 1, 1, 0), Timestamp(year, 12, 31, 23))

FutureDatesToMidnight(target_year) ==
    date_range(Timestamp(target_year, 1, 1, 0), Timestamp(target_year, 12, 31, 0))

(* future_dates of generate_forecast_curve(target_year), in full            *)
FutureDates(target_year) ==
    date_range(Timestamp(target_year, 1, 1, 0), Timestamp(target_year, 12, 31, 23))

-----------------------------------------------------------------------------
(* Settings (src/core/settings.py).                                        *)

ELIA_GRID_FEE == Rat(1250, 100)

DISTRIBUTION_GRID_FEE == Rat(800, 100)

GREEN_CERT_COST == Rat(200, 100)

TAXES_AND_LEVIES == Rat(350, 100)

VAT_RATE == Rat(21, 100)

PEAK_START_HOUR == 8

PEAK_END_HOUR == 20

WEEKEND_DAYS == {5, 6}

-----------------------------------------------------------------------------
(* ELIA connector, load side (src/ingestion/elia_client.py).               *)

(* api: what _fetch_from_api("ods003") yields, [ok |-> FALSE] when the     *)
(* request failed, came back empty or without a load column; fallback: the  *)
(* values _generate_fallback_load draws.                                     *)
fetch_real_load_curve(api, fallback) ==
    IF ~api.ok THEN Series([i \in DOMAIN fallback |-> i - 1], fallback)
    ELSE Series([i \in DOMAIN api.load |-> i - 1], api.load)

-----------------------------------------------------------------------------
(* Load curve generator (src/ingestion/curve_generator.py).                *)

(* np.sin(k * pi / 14) for k = hour - 6 in 0..14, to two decimals           *)
SinTable == <<0, 22, 43, 62, 78, 90, 97, 100, 97, 90, 78, 62, 43, 22, 0>>

SolarSin(hour) == Rat(SinTable[hour - 6 + 1], 100)

(* np.tile(pattern, repeats)[:n]                                            *)
Tile(pattern, n) == [i \in 1..n |-> pattern[((i - 1) % Len(pattern)) + 1]]

Zeros(n) == [i \in 1..n |-> Zero]

Real_Load_Name == "Real Load (MWh)"

Synthetic_Load_Name == "Synthetic Load"

NamedSeries(index, values, name) ==
    [index |-> index, values |-> values, name |-> name]

(* the relative shape built by the synthetic branch; noise[i] is the draw   *)
(* of np.random.normal that lands on hour i                                 *)
base_curve(profile_type, dates, noise_draws) ==
    CASE profile_type = "INDUSTRY_24_7" ->
            [i \in DOMAIN dates |->
                IF DayOfWeek(dates[i]) \in WEEKEND_DAYS
                THEN RMul(noise_draws[i], Rat(85, 100)) ELSE noise_draws[i]]
      [] profile_type = "OFFICE_BUILDING" ->
            [i \in DOMAIN dates |->
                IF Hour(dates[i]) >= 8 /\ Hour(dates[i]) <= 18
                   /\ DayOfWeek(dates[i]) < 5
                THEN noise_draws[i] ELSE Rat(1, 10)]
      [] profile_type = "SOLAR_PPA" ->
            [i \in DOMAIN dates |->
                IF Hour(dates[i]) >= 6 /\ Hour(dates[i]) <= 20
                THEN RMax(SolarSin(Hour(dates[i])), Zero) ELSE Zero]
      [] OTHER -> Zeros(Len(dates))

ScaleUnit(curve, total_units, annual_volume_mwh) ==
    [i \in DOMAIN curve |-> RDiv(curve[i], total_units)]

Scale(curve, total_units, annual_volume_mwh) ==
    [i \in DOMAIN curve |-> RMul(RDiv(curve[i], total_units), annual_volume_mwh)]

(* generate_profile of a LoadCurveGenerator(year); real_curve is what       *)
(* self.elia.fetch_real_load_curve(days=14) returned.  Yields the returned  *)
(* series and the local total_units.                                         *)
generate_profile(year, profile_type, annual_volume_mwh, real_curve, noise_draws) ==
    LET dates == Dates(year)
        n_hours == Len(dates)
    IN  IF profile_type = "INDUSTRY_24_7" /\ ~IsEmpty(real_curve)
        THEN LET full_pattern == Tile(real_curve.values, n_hours)
                 total_units == SumSeq(full_pattern)
                 normalized_curve ==
                     IF total_units = Zero THEN Zeros(n_hours)
                     ELSE Scale(full_pattern, total_units, annual_volume_mwh)
             IN  [series |-> NamedSeries(dates, normalized_curve, Real_Load_Name),
                  total_units |-> total_units]
        ELSE LET curve == base_curve(profile_type, dates, noise_draws)
                 total_units == SumSeq(curve)
                 normalized_curve ==
                     IF RLt(Zero, total_units)
                     THEN Scale(curve, total_units, annual_volume_mwh)
                     ELSE curve
             IN  [series |-> NamedSeries(dates, normalized_curve, Synthetic_Load_Name),
                  total_units |-> total_units]

-----------------------------------------------------------------------------
(* Inputs of the profile specification.                                    *)

Years == {2026, 2027}

Archetypes == {"INDUSTRY_24_7", "OFFICE_BUILDING", "SOLAR_PPA"}

AnnualVolumes == {R(0), R(100), R(15000)}

MaxPattern == 2

SeqsOver(levels, lo, hi) == UNION {[1..k -> levels] : k \in lo..hi}

(* values the load column of the API response may hold: the connector      *)
(* passes them on unvalidated, so zero and a negative reading are included  *)
ApiLoadLevels == {R(-2), R(0), R(8), R(10)}

(* 8500 + 2000 sin(..) + noise of the fallback, in thousands                *)
FallbackLoadLevels == {Rat(13, 2), Rat(21, 2)}

ApiResponses ==
    {[ok |-> FALSE]} \cup
    {[ok |-> TRUE, load |-> l] : l \in SeqsOver(ApiLoadLevels, 1, MaxPattern)}

(* draws of np.random.normal(1.0, 0.1, n): around 1, and one from the far  *)
(* lower tail of the distribution                                           *)
OfficeNoise == {Rat(-1, 10), Rat(9, 10), R(1), Rat(6, 5)}

NoNoise == [i \in 1..NumHours |-> R(1)]

ProfileArgs ==
    [fn : {"generate_profile"}, year : Years, profile_type : {"INDUSTRY_24_7"},
     annual_volume_mwh : AnnualVolumes, api : ApiResponses,
     fallback : SeqsOver(FallbackLoadLevels, MaxPattern, MaxPattern),
     noise : {NoNoise}]
    \cup
    [fn : {"generate_profile"}, year : Years, profile_type : {"OFFICE_BUILDING"},
     annual_volume_mwh : AnnualVolumes, api : {[ok |-> FALSE]},
     fallback : {<<R(1)>>}, noise : [1..NumHours -> OfficeNoise]]
    \cup
    [fn : {"generate_profile"}, year : Years,
     profile_type : {"SOLAR_PPA", "WIND_PPA", "office_building"},
     annual_volume_mwh : AnnualVolumes, api : {[ok |-> FALSE]},
     fallback : {<<R(1)>>}, noise : {NoNoise}]

InitProfile ==
    /\ op = "none"
    /\ args \in ProfileArgs
    /\ ret = None
    /\ locals = None
    /\ ForecasterIdle

GenerateProfile ==
    /\ op = "none"
    /\ args.fn = "generate_profile"
    /\ op' = "generate_profile"
    /\ LET real_curve == IF args.profile_type = "INDUSTRY_24_7"
                         THEN fetch_real_load_curve(args.api, args.fallback)
                         ELSE EmptySeries
           r == generate_profile(args.year, args.profile_type,
                                 args.annual_volume_mwh, real_curve, args.noise)
       IN  /\ ret' = r.series
           /\ locals' = [total_units |-> r.total_units]
    /\ UNCHANGED <<args, fvars>>

NextProfile == GenerateProfile

SpecProfile == InitProfile /\ [][NextProfile]_vars

ProfileDone == op = "generate_profile"

AllZero(s) == \A i \in DOMAIN s.values : s.values[i] = Zero

RealPath == ret.name = Real_Load_Name

(* C1 as stated: for each of the three archetypes, on the synthetic and on  *)
(* the real-shape path, for every target volume V >= 0 the returned series  *)
(* sums to V, and for V = 0 it is the all-zero series of length             *)
(* hours-in-year.                                                            *)
C1_Original ==
    (ProfileDone /\ args.profile_type \in Archetypes) =>
        /\ SeriesSum(ret) = args.annual_volume_mwh
        /\ args.annual_volume_mwh = Zero =>
               (AllZero(ret) /\ Len(ret.values) = Len(Dates(args.year)))

Usable == IF RealPath THEN locals.total_units # Zero
          ELSE RLt(Zero, locals.total_units)

(* C1 amended: the series has one value per hour of the year and sums to V  *)
(* whenever the total of the relative shape can be normalised (non-zero on  *)
(* the real-shape path, positive on the synthetic path), and is then the    *)
(* all-zero series for V = 0; a real shape whose total is 0 gives the       *)
(* all-zero series, of sum 0, whatever V is.                                 *)
C1_ProfileSumsToVolume ==
    (ProfileDone /\ args.profile_type \in Archetypes) =>
        /\ Len(ret.values) = Len(Dates(args.year))
        /\ ret.index = Dates(args.year)
        /\ Usable => SeriesSum(ret) = args.annual_volume_mwh
        /\ (Usable /\ args.annual_volume_mwh = Zero) => AllZero(ret)
        /\ (RealPath /\ locals.total_units = Zero) => AllZero(ret)

C1_Witness ==
    /\ ProfileDone
    /\ RealPath
    /\ args.annual_volume_mwh = R(15000)
    /\ SeriesSum(ret) = R(15000)
    /\ \E i \in DOMAIN ret.values : ret.values[i] # ret.values[1]

(* C11: generate_profile called with an archetype tag that is none of the   *)
(* recognised ones reports an error to the caller and never returns a       *)
(* series, such as an all-zero profile.                                     *)
C11_UnknownArchetypeReported ==
    (ProfileDone /\ args.profile_type \notin Archetypes) =>
        ~("values" \in DOMAIN ret)

(* C13: for every archetype and every positive target volume, every hourly  *)
(* value of the returned series is >= 0, whatever noise is drawn and        *)
(* whatever shape the real-data override supplies.                          *)
C13_ProfileNonNegative ==
    (ProfileDone /\ args.profile_type \in Archetypes
                 /\ RLt(Zero, args.annual_volume_mwh)) =>
        \A i \in DOMAIN ret.values : RLe(Zero, ret.values[i])

C1_WitnessSynthetic ==
    /\ ProfileDone
    /\ ~RealPath
    /\ args.profile_type = "OFFICE_BUILDING"
    /\ args.annual_volume_mwh = R(15000)
    /\ SeriesSum(ret) = R(15000)
    /\ \E i \in DOMAIN ret.values : ret.values[i] # ret.values[1]

-----------------------------------------------------------------------------
(* Price forecaster (src/domain/ml_forecasting.py).                        *)

EmptyDict == [k \in {} |-> 0]

(* _create_features: one row of calendar features per timestamp             *)
Features(t) ==
    [hour |-> Hour(t), dayofweek |-> DayOfWeek(t), month |-> Month(t),
     year |-> Year(t), dayofyear |-> DayOfYear(t),
     is_weekend |-> IF DayOfWeek(t) >= 5 THEN 1 ELSE 0,
     is_peak |-> IF Hour(t) >= 8 /\ Hour(t) < 20 /\ DayOfWeek(t) < 5
                 THEN 1 ELSE 0]

create_features(dates) == [i \in DOMAIN dates |-> Features(dates[i])]

(* A fitted XGBRegressor is a piecewise-constant function of the feature    *)
(* row.  The fitted models drawn here split on is_peak, is_weekend and      *)
(* year: a level per regime plus a step per year.                            *)
Regimes == {"peak", "offpeak", "weekend"}

Regime(x) ==
    IF x.is_weekend = 1 THEN "weekend"
    ELSE IF x.is_peak = 1 THEN "peak" ELSE "offpeak"

Fit(peak, offpeak, weekend, year_step) ==
    [levels |-> [r \in Regimes |->
                    CASE r = "peak" -> R(peak)
                      [] r = "offpeak" -> R(offpeak)
                      [] r = "weekend" -> R(weekend)],
     year_step |-> R(year_step)]

(* self.model.predict(X)                                                    *)
predict(m, X) ==
    [i \in DOMAIN X |->
        RAdd(m.levels[Regime(X[i])],
             RMul(m.year_step, R(X[i].year - EpochYear)))]

MetricsOf(rmse_train, rmse_test) ==
    [RMSE_Train |-> Round(rmse_train, 2),
     RMSE_Test |-> Round(rmse_test, 2),
     Overfitting_Ratio |-> Round(RDiv(rmse_test, RAdd(rmse_train, Rat(1, 1000))), 2)]

(* What one run of train() can produce: the fitted model and the two errors *)
(* it measures.  The history is random and so is the fit; these are the     *)
(* outcomes drawn.                                                           *)
TrainOutcomes ==
    {[model |-> Fit(100, 100, 100, 0),
      rmse_train |-> Rat(500, 100), rmse_test |-> Rat(480, 100)],
     [model |-> Fit(100, 40, 40, 5),
      rmse_train |-> Rat(412, 100), rmse_test |-> Rat(655, 100)],
     [model |-> Fit(130, 70, 40, 0),
      rmse_train |-> Rat(300, 100), rmse_test |-> Rat(915, 100)],
     [model |-> Fit(40, 100, 70, 5),
      rmse_train |-> Rat(500, 100), rmse_test |-> Rat(480, 100)]}

MaxFits == 2

(* train(): fit, mark the instance trained, store the metrics               *)
TrainEffect(o) ==
    /\ model' = o.model
    /\ is_trained' = TRUE
    /\ metrics' = MetricsOf(o.rmse_train, o.rmse_test)
    /\ fits' = fits + 1

EnsureTrainedAlways == \E o \in TrainOutcomes : TrainEffect(o)

(* "if not self.is_trained: self.train()"                                   *)
EnsureTrained ==
    IF ~is_trained THEN \E o \in TrainOutcomes : TrainEffect(o)
    ELSE UNCHANGED <<model, is_trained, metrics, fits>>

HpfcName(target_year) == <<"HPFC", target_year, "(ML)">>

(* self.model.predict(X_future) on the hourly calendar of target_year       *)
PredictedPrices(m, target_year) ==
    predict(m, create_features(Dates(target_year)))

(* adjustment = self.spot_reference - np.mean(predicted_prices)             *)
Adjustment(m, anchor, target_year) ==
    LET predicted_prices == PredictedPrices(m, target_year)
        current_mean == RDiv(SumSeq(predicted_prices), R(Len(predicted_prices)))
    IN  RSub(anchor, current_mean)

MaximumOff(values, floor) == values

(* np.maximum(values, floor)                                                *)
Maximum(values, floor) == [i \in DOMAIN values |-> RMax(values[i], floor)]

ForecastCurveNoShift(m, anchor, target_year) ==
    LET predicted_prices == PredictedPrices(m, target_year)
    IN  NamedSeries(Dates(target_year), Maximum(predicted_prices, Zero),
                    HpfcName(target_year))

(* generate_forecast_curve after the training check: predict, shift the     *)
(* level to the anchor, clip at zero                                         *)
ForecastCurve(m, anchor, target_year) ==
    LET future_dates == Dates(target_year)
        predicted_prices == PredictedPrices(m, target_year)
        adjustment == Adjustment(m, anchor, target_year)
        shifted == [i \in DOMAIN predicted_prices |->
                       RAdd(predicted_prices[i], adjustment)]
        final_curve == Maximum(shifted, Zero)
    IN  NamedSeries(future_dates, final_curve, HpfcName(target_year))

-----------------------------------------------------------------------------
(* Pricing engine (src/domain/pricing_models.py).                          *)

Dist(a, b) == Abs(a - b)

NearestLast(index, t) ==
    CHOOSE i \in DOMAIN index : \A j \in DOMAIN index : index[j] <= index[i]

(* position picked by reindex(..., method="nearest") in an increasing       *)
(* index: the closest label, the later one when two are equally close       *)
Nearest(index, t) ==
    CHOOSE i \in DOMAIN index :
        /\ \A j \in DOMAIN index : Dist(index[i], t) <= Dist(index[j], t)
        /\ \A j \in DOMAIN index :
               Dist(index[j], t) = Dist(index[i], t) => index[j] <= index[i]

Reindex(s, dates) ==
    Series(dates, [i \in DOMAIN dates |-> s.values[Nearest(s.index, dates[i])]])

HpfcYearOfLast(dates) == Year(dates[Len(dates)])

(* target_year = dates[0].year                                              *)
HpfcYear(dates) == Year(dates[1])

(* generate_hpfc once the forecaster holds the fitted model m               *)
generate_hpfc(m, anchor, dates) ==
    IF dates = <<>> THEN EmptySeries
    ELSE Reindex(ForecastCurve(m, anchor, HpfcYear(dates)), dates)

IsPeakThroughTwenty(t) == Hour(t) >= 8 /\ Hour(t) <= 20 /\ DayOfWeek(t) < 5

(* is_peak of compute_sourcing_cost, for one timestamp of the index         *)
IsPeak(t) == Hour(t) >= 8 /\ Hour(t) < 20 /\ DayOfWeek(t) < 5

(* load_curve[is_peak]                                                      *)
PeakOnly(s) ==
    LET pos == SortedSeq({i \in DOMAIN s.index : IsPeak(s.index[i])})
    IN  Series([k \in DOMAIN pos |-> s.index[pos[k]]],
               [k \in DOMAIN pos |-> s.values[pos[k]]])

WeightedAverageBaseFallback(total_cost, total_volume) ==
    IF RLt(Zero, total_volume) THEN RDiv(total_cost, total_volume)
    ELSE Rat(955, 10)

(* avg_price = total_cost / total_volume if total_volume > 0 else 0.0       *)
WeightedAverage(total_cost, total_volume) ==
    IF RLt(Zero, total_volume) THEN RDiv(total_cost, total_volume) ELSE Zero

AvgPriceOverPeakVolume(load_curve, hpfc) ==
    WeightedAverage(SeriesSum(SeriesMul(load_curve, hpfc)),
                    SeriesSum(PeakOnly(load_curve)))

(* avg_price of compute_sourcing_cost, before the result is rounded         *)
AvgPrice(load_curve, hpfc) ==
    WeightedAverage(SeriesSum(SeriesMul(load_curve, hpfc)), SeriesSum(load_curve))

SourcingCostUnrounded(load_curve, hpfc) ==
    LET total_volume == SeriesSum(load_curve)
        peak_volume == SeriesSum(PeakOnly(load_curve))
        total_cost == SeriesSum(SeriesMul(load_curve, hpfc))
        avg_price == WeightedAverage(total_cost, total_volume)
    IN  [total_volume_mwh |-> total_volume,
         base_volume_mwh |-> total_volume,
         peak_volume_mwh |-> peak_volume,
         weighted_average_price |-> avg_price,
         total_commodity_cost |-> total_cost]

(* compute_sourcing_cost once hpfc = self.generate_hpfc(load_curve.index)   *)
SourcingCost(load_curve, hpfc) ==
    LET total_volume == SeriesSum(load_curve)
        peak_volume == SeriesSum(PeakOnly(load_curve))
        base_volume == total_volume
        total_cost == SeriesSum(SeriesMul(load_curve, hpfc))
        avg_price == AvgPrice(load_curve, hpfc)
    IN  [total_volume_mwh |-> Round(total_volume, 2),
         base_volume_mwh |-> Round(base_volume, 2),
         peak_volume_mwh |-> Round(peak_volume, 2),
         weighted_average_price |-> Round(avg_price, 2),
         total_commodity_cost |-> Round(total_cost, 2)]

-----------------------------------------------------------------------------
(* Calendar classification specification: the feature encoder and the peak  *)
(* mask of the pricing engine, each applied to drawn timestamps.            *)

EncoderDays == 0..6

EncoderHours == {0, 7, 8, 12, 19, 20, 23}

(* hours of the first week of 2026 (Thursday to Wednesday) and of the same  *)
(* days one year on                                                         *)
EncoderTimes ==
    {YearStart(y) + 24 * d + h : y \in Years, d \in EncoderDays, h \in EncoderHours}

EncoderArgs ==
    [fn : {"create_features", "is_peak"}, dates : SeqsOver(EncoderTimes, 1, 1)]
    \cup
    [fn : {"office_shape"}, dates : SeqsOver(EncoderTimes, 1, 1),
     noise : [1..1 -> OfficeNoise]]

InitEncoder ==
    /\ op = "none"
    /\ args \in EncoderArgs
    /\ ret = None
    /\ locals = None
    /\ ForecasterIdle

(* forecaster._create_features(dates)                                       *)
CreateFeatures ==
    /\ op = "none"
    /\ args.fn = "create_features"
    /\ op' = "create_features"
    /\ ret' = create_features(args.dates)
    /\ locals' = None
    /\ UNCHANGED <<args, fvars>>

(* the peak mask compute_sourcing_cost builds over the curve's index        *)
ClassifyPeak ==
    /\ op = "none"
    /\ args.fn = "is_peak"
    /\ op' = "is_peak"
    /\ ret' = [i \in DOMAIN args.dates |-> IsPeak(args.dates[i])]
    /\ locals' = None
    /\ UNCHANGED <<args, fvars>>

(* the relative shape of the OFFICE_BUILDING branch of generate_profile,    *)
(* before normalization, over the drawn timestamps                          *)
OfficeShape ==
    /\ op = "none"
    /\ args.fn = "office_shape"
    /\ op' = "office_shape"
    /\ ret' = base_curve("OFFICE_BUILDING", args.dates, args.noise)
    /\ locals' = None
    /\ UNCHANGED <<args, fvars>>

NextEncoder == CreateFeatures \/ ClassifyPeak \/ OfficeShape

SpecEncoder == InitEncoder /\ [][NextEncoder]_vars

-----------------------------------------------------------------------------
(* Timeline specification: the full hourly calendar the generator builds    *)
(* when constructed and the one the forecaster builds for a target year.    *)

FirstYear == EpochYear

LastYear == 2101

TimelineYears == FirstYear..LastYear

TimelineArgs == [fn : {"construct_generator", "future_dates"}, year : TimelineYears]

InitTimeline ==
    /\ op = "none"
    /\ args \in TimelineArgs
    /\ ret = None
    /\ locals = None
    /\ ForecasterIdle

(* LoadCurveGenerator(year)                                                 *)
ConstructGenerator ==
    /\ op = "none"
    /\ args.fn = "construct_generator"
    /\ op' = "construct_generator"
    /\ ret' = [year |-> args.year, dates |-> GeneratorDates(args.year),
               n_hours |-> Len(GeneratorDates(args.year))]
    /\ locals' = None
    /\ UNCHANGED <<args, fvars>>

(* step 1 of generate_forecast_curve(target_year)                           *)
BuildFutureDates ==
    /\ op = "none"
    /\ args.fn = "future_dates"
    /\ op' = "future_dates"
    /\ ret' = FutureDates(args.year)
    /\ locals' = None
    /\ UNCHANGED <<args, fvars>>

NextTimeline == ConstructGenerator \/ BuildFutureDates

SpecTimeline == InitTimeline /\ [][NextTimeline]_vars

-----------------------------------------------------------------------------
(* Calls on a pricing engine and on the forecaster it owns.                 *)

DefaultCalBase == Rat(955, 10)

(* ElectricityPricingEngine(market_prices): a fresh, untrained forecaster   *)
(* anchored on market_prices.get("CAL_BASE", 95.5)                           *)
AnchorOf(mapping) ==
    IF "CAL_BASE" \in DOMAIN mapping THEN mapping["CAL_BASE"] ELSE DefaultCalBase

MaxEngines == 2

ConstructEngine ==
    /\ engine < MaxEngines
    /\ engine' = engine + 1
    /\ spot_reference' = AnchorOf(market_prices)
    /\ is_trained' = FALSE
    /\ model' = None
    /\ metrics' = EmptyDict
    /\ fits' = 0
    /\ op' = "construct"
    /\ args' = [fn |-> "construct", market_prices |-> market_prices]
    /\ ret' = None
    /\ locals' = None
    /\ UNCHANGED market_prices

OverrideCalBaseReanchors(base_price) ==
    /\ market_prices' = [CAL_BASE |-> base_price]
    /\ op' = "override"
    /\ args' = [fn |-> "override", base_price |-> base_price]
    /\ ret' = None
    /\ locals' = None
    /\ spot_reference' = IF engine > 0 THEN base_price ELSE spot_reference
    /\ UNCHANGED <<engine, is_trained, model, metrics, fits>>

(* app.py sidebar: MARKET_PRICES['CAL_BASE'] = base_price                   *)
OverrideCalBase(base_price) ==
    /\ market_prices' = [CAL_BASE |-> base_price]
    /\ op' = "override"
    /\ args' = [fn |-> "override", base_price |-> base_price]
    /\ ret' = None
    /\ locals' = None
    /\ UNCHANGED <<engine, spot_reference, is_trained, model, metrics, fits>>

(* forecaster.train() called directly                                       *)
Train ==
    /\ engine > 0
    /\ fits < MaxFits
    /\ \E o \in TrainOutcomes : TrainEffect(o)
    /\ op' = "train"
    /\ args' = [fn |-> "train"]
    /\ ret' = None
    /\ locals' = [trained_before |-> is_trained]
    /\ UNCHANGED <<market_prices, engine, spot_reference>>

(* forecaster.generate_forecast_curve(target_year)                          *)
GenerateForecastCurve(target_year) ==
    /\ engine > 0
    /\ EnsureTrained
    /\ op' = "generate_forecast_curve"
    /\ args' = [fn |-> "generate_forecast_curve", target_year |-> target_year]
    /\ ret' = ForecastCurve(model', spot_reference, target_year)
    /\ locals' = [trained_before |-> is_trained,
                  predicted_prices |-> PredictedPrices(model', target_year),
                  adjustment |-> Adjustment(model', spot_reference, target_year)]
    /\ UNCHANGED <<market_prices, engine, spot_reference>>

GenerateHpfcTrainsFirst(dates) ==
    /\ engine > 0
    /\ EnsureTrained
    /\ op' = "generate_hpfc"
    /\ args' = [fn |-> "generate_hpfc", dates |-> dates]
    /\ ret' = generate_hpfc(model', spot_reference, dates)
    /\ locals' = [trained_before |-> is_trained]
    /\ UNCHANGED <<market_prices, engine, spot_reference>>

(* engine.generate_hpfc(dates)                                              *)
GenerateHpfc(dates) ==
    /\ engine > 0
    /\ IF dates = <<>>
       THEN UNCHANGED <<model, is_trained, metrics, fits>>
       ELSE EnsureTrained
    /\ op' = "generate_hpfc"
    /\ args' = [fn |-> "generate_hpfc", dates |-> dates]
    /\ ret' = generate_hpfc(model', spot_reference, dates)
    /\ locals' = [trained_before |-> is_trained]
    /\ UNCHANGED <<market_prices, engine, spot_reference>>

(* engine.compute_sourcing_cost(load_curve)                                 *)
ComputeSourcingCost(load_curve) ==
    /\ engine > 0
    /\ IF load_curve.index = <<>>
       THEN UNCHANGED <<model, is_trained, metrics, fits>>
       ELSE EnsureTrained
    /\ op' = "compute_sourcing_cost"
    /\ args' = [fn |-> "compute_sourcing_cost", load_curve |-> load_curve]
    /\ LET hpfc == generate_hpfc(model', spot_reference, load_curve.index)
       IN  /\ ret' = SourcingCost(load_curve, hpfc)
           /\ locals' = [trained_before |-> is_trained, hpfc |-> hpfc,
                         avg_price |-> AvgPrice(load_curve, hpfc)]
    /\ UNCHANGED <<market_prices, engine, spot_reference>>

-----------------------------------------------------------------------------
(* Pricing specification: one engine, built on an anchor, and one call      *)
(* drawn at the start and made on it again and again.                        *)

AnchorValues == {DefaultCalBase, R(20), R(-5)}

(* timestamps a caller may ask for: hours of the year's grid, hours between *)
(* two of them, hours of the next year                                       *)
RequestTimes ==
    {Dates(2026)[1], Dates(2026)[2], Dates(2026)[2] - GridStep \div 2,
     Dates(2026)[2] + 3, Dates(2027)[1], Dates(2027)[2]}

MaxRequest == 2

Requests == SeqsOver(RequestTimes, 0, MaxRequest)

LoadIndexes == {Dates(y) : y \in Years} \cup {<<Dates(2027)[1], Dates(2026)[2]>>}

LoadCurves ==
    {EmptySeries} \cup
    UNION {{Series(idx, vs) : vs \in [DOMAIN idx -> LoadLevels]} : idx \in LoadIndexes}

PricingArgs ==
    [fn : {"generate_forecast_curve"}, target_year : Years]
    \cup [fn : {"generate_hpfc"}, dates : Requests]
    \cup [fn : {"compute_sourcing_cost"}, load_curve : LoadCurves]

InitPricing ==
    /\ op = "none"
    /\ args \in PricingArgs
    /\ ret = None
    /\ locals = None
    /\ market_prices \in {[CAL_BASE |-> v] : v \in AnchorValues}
    /\ engine = 1
    /\ spot_reference = AnchorOf(market_prices)
    /\ is_trained = FALSE
    /\ model = None
    /\ metrics = EmptyDict
    /\ fits = 0

NextPricing ==
    \/ args.fn = "generate_forecast_curve" /\ GenerateForecastCurve(args.target_year)
    \/ args.fn = "generate_hpfc" /\ GenerateHpfc(args.dates)
    \/ args.fn = "compute_sourcing_cost" /\ ComputeSourcingCost(args.load_curve)

SpecPricing == InitPricing /\ [][NextPricing]_vars

-----------------------------------------------------------------------------
(* Session specification: the market mapping, the engines built from it and *)
(* any sequence of calls on the current engine and its forecaster.           *)

CalBaseValues == {DefaultCalBase, R(20)}

SessionRequests == {<<>>, <<Dates(2026)[2]>>, <<Dates(2027)[1], Dates(2026)[1]>>}

SessionLoadCurves ==
    {EmptySeries, Series(Dates(2026), [i \in 1..NumHours |-> R(i)])}

Init ==
    /\ op = "none"
    /\ args = None
    /\ ret = None
    /\ locals = None
    /\ market_prices \in {EmptyDict, [CAL_BASE |-> DefaultCalBase]}
    /\ engine = 0
    /\ spot_reference = None
    /\ is_trained = FALSE
    /\ model = None
    /\ metrics = None
    /\ fits = 0

Next ==
    \/ \E v \in CalBaseValues : OverrideCalBase(v)
    \/ ConstructEngine
    \/ Train
    \/ \E y \in Years : GenerateForecastCurve(y)
    \/ \E d \in SessionRequests : GenerateHpfc(d)
    \/ \E l \in SessionLoadCurves : ComputeSourcingCost(l)

Spec == Init /\ [][Next]_vars

(* The session without direct train() calls: only the engine's and the      *)
(* forecaster's forecasting calls.                                           *)
NextCalls ==
    \/ \E v \in CalBaseValues : OverrideCalBase(v)
    \/ ConstructEngine
    \/ \E y \in Years : GenerateForecastCurve(y)
    \/ \E d \in SessionRequests : GenerateHpfc(d)
    \/ \E l \in SessionLoadCurves : ComputeSourcingCost(l)

SpecCalls == Init /\ [][NextCalls]_vars

-----------------------------------------------------------------------------
(* Pricing run of the application (src/app.py): the sidebar inputs, then    *)
(* the whole block behind the EXECUTE PRICING button.                       *)

(* MarketDataManager().get_forward_prices()                                 *)
get_forward_prices ==
    [CAL_BASE |-> Rat(9550, 100), CAL_PEAK |-> Rat(11275, 100),
     SPOT_VOLATILITY |-> Rat(25, 100)]

(* MARKET_PRICES.get('SPOT_VOLATILITY', 0.25)                               *)
SpotVolatilityOf(mapping) ==
    IF "SPOT_VOLATILITY" \in DOMAIN mapping THEN mapping["SPOT_VOLATILITY"]
    ELSE Rat(25, 100)

margin == Rat(250, 100)

grid_fees == RAdd(ELIA_GRID_FEE, DISTRIBUTION_GRID_FEE)

taxes == RAdd(TAXES_AND_LEVIES, GREEN_CERT_COST)

FinalPriceWithVAT(weighted_average_price, profiling_cost, volume_risk) ==
    RMul(RAdd(RAdd(RAdd(RAdd(RAdd(weighted_average_price, profiling_cost),
                             volume_risk), grid_fees), taxes), margin),
         RAdd(R(1), VAT_RATE))

(* the cost stack: the six terms added from left to right                   *)
FinalPrice(weighted_average_price, profiling_cost, volume_risk) ==
    RAdd(RAdd(RAdd(RAdd(RAdd(weighted_average_price, profiling_cost),
                        volume_risk), grid_fees), taxes), margin)

(* the source badge: "Real" in str(load_curve.name)                         *)
SourceBadge(load_curve) ==
    IF load_curve.name = Real_Load_Name
    THEN "REAL DATA FEED: ELIA API CONNECTED"
    ELSE "SYNTHETIC DATA MODE"

(* VOL_MWH is a number input from 100 to 1000000                            *)
RunVolumes == {R(100), R(500), R(2000)}

(* FWD_BASE is a number input without bounds                                *)
RunBasePrices == {DefaultCalBase, R(20), R(-5)}

RunNoise == [1..NumHours -> {Rat(9, 10), Rat(6, 5)}]

RunFallback == [i \in 1..MaxPattern |-> IF i = 1 THEN Rat(13, 2) ELSE Rat(21, 2)]

RunArgs ==
    [fn : {"execute_pricing"}, profile_type : {"INDUSTRY_24_7"},
     annual_volume : RunVolumes, base_price : RunBasePrices,
     api : ApiResponses, fallback : {RunFallback}, noise : {NoNoise}]
    \cup
    [fn : {"execute_pricing"}, profile_type : {"OFFICE_BUILDING"},
     annual_volume : RunVolumes, base_price : RunBasePrices,
     api : {[ok |-> FALSE]}, fallback : {RunFallback}, noise : RunNoise]
    \cup
    [fn : {"execute_pricing"}, profile_type : {"SOLAR_PPA"},
     annual_volume : RunVolumes, base_price : RunBasePrices,
     api : {[ok |-> FALSE]}, fallback : {RunFallback}, noise : {NoNoise}]

InitRun ==
    /\ op = "none"
    /\ args \in RunArgs
    /\ ret = None
    /\ locals = None
    /\ market_prices = get_forward_prices
    /\ engine = 0
    /\ spot_reference = None
    /\ is_trained = FALSE
    /\ model = None
    /\ metrics = None
    /\ fits = 0

(* one run: profile, engine on the overridden market prices, sourcing cost  *)
(* (which trains the new forecaster), HPFC, risk terms, PPA, cost stack     *)
ExecutePricing ==
    /\ op = "none"
    /\ args.fn = "execute_pricing"
    /\ op' = "execute_pricing"
    /\ market_prices' = [market_prices EXCEPT !.CAL_BASE = args.base_price]
    /\ engine' = engine + 1
    /\ spot_reference' = AnchorOf(market_prices')
    /\ \E o \in TrainOutcomes :
          /\ TrainEffect(o)
          /\ LET real_curve == IF args.profile_type = "INDUSTRY_24_7"
                               THEN fetch_real_load_curve(args.api, args.fallback)
                               ELSE EmptySeries
                 load_curve == generate_profile(2026, args.profile_type,
                                   args.annual_volume, real_curve, args.noise).series
                 hpfc == generate_hpfc(o.model, spot_reference', load_curve.index)
                 pricing_result == SourcingCost(load_curve, hpfc)
                 ml_metrics == MetricsOf(o.rmse_train, o.rmse_test)
                 profiling_cost == calculate_profiling_cost(load_curve, hpfc)
                 volume_risk ==
                     calculate_volume_risk_premium(pricing_result.total_volume_mwh,
                         SpotVolatilityOf(market_prices')).value
                 ppa_data == IF args.profile_type = "SOLAR_PPA"
                             THEN price_renewable_ppa("SOLAR", args.base_price)
                             ELSE None
                 final_price == FinalPrice(pricing_result.weighted_average_price,
                                           profiling_cost, volume_risk)
             IN  /\ ret' = [final_price |-> final_price, grid_fees |-> grid_fees,
                            taxes |-> taxes, margin |-> margin,
                            badge |-> SourceBadge(load_curve)]
                 /\ locals' = [load_curve |-> load_curve, hpfc |-> hpfc,
                               pricing_result |-> pricing_result,
                               ml_metrics |-> ml_metrics,
                               profiling_cost |-> profiling_cost,
                               volume_risk |-> volume_risk,
                               ppa_data |-> ppa_data]
    /\ UNCHANGED args

NextRun == ExecutePricing

SpecRun == InitRun /\ [][NextRun]_vars

-----------------------------------------------------------------------------
(* Training histories (src/domain/ml_forecasting.py and                     *)
(* src/domain/_3hpfc_forecasting.py).  A history timestamp is a number of   *)
(* hours counted from 2015-01-01 00:00, the hour the real era starts.        *)

(* a new forecaster: MLPriceForecaster(spot_reference)                      *)
ForecasterNew ==
    /\ market_prices = None
    /\ engine = "absent"
    /\ spot_reference = DefaultCalBase
    /\ is_trained = FALSE
    /\ model = None
    /\ metrics = EmptyDict
    /\ fits = 0

Concat(a, b) == Series(a.index \o b.index, a.values \o b.values)

IsMonotonicIncreasing(index) ==
    \A i \in 1..(Len(index) - 1) : index[i] <= index[i + 1]

PositionsOf(s, t) == {j \in DOMAIN s.index : s.index[j] = t}

MaxOf(S) == CHOOSE x \in S : \A y \in S : y <= x

MinOf(S) == CHOOSE x \in S : \A y \in S : x <= y

(* s.sort_index() then s[~s.index.duplicated(keep='last')]: the position of *)
(* s kept for each label.  sort_index leaves an index that is already       *)
(* monotonic as it is; otherwise it sorts with the default kind, quicksort, *)
(* which is not stable, so rows of equal label come out in any order and     *)
(* the last of them is any of them.                                          *)
KeepLastAfterSort(s) ==
    LET labels == SortedSeq(Range(s.index))
    IN  IF IsMonotonicIncreasing(s.index)
        THEN {[k \in DOMAIN labels |-> MaxOf(PositionsOf(s, labels[k]))]}
        ELSE {f \in [DOMAIN labels -> DOMAIN s.index] :
                 \A k \in DOMAIN labels : f[k] \in PositionsOf(s, labels[k])}

Take(s, kept) ==
    Series([k \in DOMAIN kept |-> s.index[kept[k]]],
           [k \in DOMAIN kept |-> s.values[kept[k]]])

Valid(vs) == {j \in DOMAIN vs : vs[j] # NaN}

(* vs.interpolate(method='linear').ffill().bfill(): a gap between two       *)
(* values is filled on the straight line between them, by position; a gap   *)
(* at the end takes the last value, a gap at the start the first value.     *)
Fill(vs) ==
    [i \in DOMAIN vs |->
        IF vs[i] # NaN THEN vs[i]
        ELSE LET before == {j \in Valid(vs) : j < i}
                 after == {j \in Valid(vs) : j > i}
             IN  IF before # {} /\ after # {}
                 THEN LET a == MaxOf(before)
                          b == MinOf(after)
                      IN  RAdd(vs[a], RMul(RSub(vs[b], vs[a]), Rat(i - a, b - a)))
                 ELSE IF before # {} THEN vs[MaxOf(before)]
                 ELSE IF after # {} THEN vs[MinOf(after)]
                 ELSE NaN]

RealAsFetched(series_real, fallback) == series_real

(* "if series_real.empty:" the real era is replaced by generated prices     *)
(* from 2015-01-01 to now                                                    *)
RealOrFallback(series_real, fallback) ==
    IF IsEmpty(series_real) THEN fallback ELSE series_real

(* _get_hybrid_history: every history the merge can return, given the       *)
(* synthetic era, what fetch_real_spot_prices returned (its index already   *)
(* without time zone) and the prices generated if it returned nothing       *)
HybridHistories(series_syn, fetched, fallback) ==
    LET series_real == RealOrFallback(fetched, fallback)
        joined == Concat(series_syn, series_real)
    IN  {Series(Take(joined, kept).index, Fill(Take(joined, kept).values)) :
            kept \in KeepLastAfterSort(joined)}

(* _generate_synthetic_history, carried by its first n hours; the prices    *)
(* are floored at 5.0                                                       *)
SyntheticHistory(n) ==
    Series([i \in 1..n |-> i - 1],
           [i \in 1..n |-> IF i % 2 = 0 THEN R(5) ELSE R(30 + i)])

SplitIndexHalf(n, variant) == n \div 2

(* split_idx = int(len(history) * 0.9), 0.8 in the hybrid forecaster        *)
SplitIndex(n, variant) ==
    IF variant = "hybrid" THEN (n * 8) \div 10 ELSE (n * 9) \div 10

(* the steps of train() in the order they run                               *)
TrainSteps == <<"history", "features", "fit", "predict", "metrics">>

FailPoints == Range(TrainSteps) \cup {"none"}

-----------------------------------------------------------------------------
(* Training specification: one new forecaster, one call of                  *)
(* _get_hybrid_history or of train(), whose steps may raise.                *)

MaxSyn == 2

MaxReal == 2

MaxHistory == 6

SynEras ==
    {Series([i \in 1..MaxSyn |-> i - MaxSyn - 1], vs) :
        vs \in [1..MaxSyn -> {R(5), R(30)}]}

(* labels of the end of 2014 and of the start of 2015                       *)
RealLabels == (0 - MaxSyn)..1

(* what fetch_real_spot_prices may return, once its index has lost its time *)
(* zone: nothing, hourly prices in time order (a label twice where the      *)
(* clock went back), or a column without a single value                     *)
FetchedSeries ==
    {EmptySeries}
    \cup {Series(idx, vs) :
            idx \in {q \in SeqsOver(RealLabels, 1, MaxReal) : IsMonotonicIncreasing(q)},
            vs \in SeqsOver({R(40), R(60)}, 1, MaxReal)}
    \cup {Series([i \in 1..k |-> i - 1], [i \in 1..k |-> NaN]) : k \in 1..MaxReal}

WellFormed(S) == {x \in S : Len(x.index) = Len(x.values)}

FallbackEra == Series(<<0, 1>>, <<R(50), R(45)>>)

TrainingArgs ==
    [fn : {"get_hybrid_history"}, series_syn : SynEras,
     fetched : WellFormed(FetchedSeries), fallback : {FallbackEra}]
    \cup
    [fn : {"train"}, variant : {"hybrid"},
     series_syn : {Series([i \in 1..MaxSyn |-> i - MaxSyn - 1],
                          [i \in 1..MaxSyn |-> R(30)])},
     fetched : WellFormed(FetchedSeries), fallback : {FallbackEra},
     fail : FailPoints]
    \cup
    [fn : {"train"}, variant : {"synthetic"}, n : 2..MaxHistory, fail : FailPoints]

InitTraining ==
    /\ op = "none"
    /\ args \in TrainingArgs
    /\ ret = None
    /\ locals = None
    /\ ForecasterNew

(* forecaster._get_hybrid_history()                                         *)
GetHybridHistory ==
    /\ op = "none"
    /\ args.fn = "get_hybrid_history"
    /\ op' = "get_hybrid_history"
    /\ ret' \in HybridHistories(args.series_syn, args.fetched, args.fallback)
    /\ locals' = [series_real |-> RealOrFallback(args.fetched, args.fallback)]
    /\ UNCHANGED <<args, fvars>>

HistoriesOf(a) ==
    IF a.variant = "hybrid"
    THEN HybridHistories(a.series_syn, a.fetched, a.fallback)
    ELSE {SyntheticHistory(a.n)}

(* forecaster.train(), whole: history, split, features, fit, is_trained,    *)
(* predictions, metrics.  args.fail is the step that raises, if any; the     *)
(* exception leaves train() as it is, nothing catches it.                    *)
TrainOnHistory ==
    /\ op = "none"
    /\ args.fn = "train"
    /\ op' = "train"
    /\ \E history \in HistoriesOf(args) : \E o \in TrainOutcomes :
          LET n == Len(history.index)
              split_idx == SplitIndex(n, args.variant)
              train_index == SubSeq(history.index, 1, split_idx)
              test_index == SubSeq(history.index, split_idx + 1, n)
              y_train == SubSeq(history.values, 1, split_idx)
              y_test == SubSeq(history.values, split_idx + 1, n)
          IN  /\ ret' = [raised |-> args.fail # "none", step |-> args.fail]
              /\ CASE args.fail = "history" ->
                        /\ locals' = [trained_before |-> is_trained, history |-> None]
                        /\ UNCHANGED <<model, is_trained, metrics, fits>>
                   [] args.fail = "features" ->
                        /\ locals' = [trained_before |-> is_trained,
                                      history |-> history, split_idx |-> split_idx,
                                      fitted_on |-> None]
                        /\ UNCHANGED <<model, is_trained, metrics, fits>>
                   [] args.fail = "fit" ->
                        /\ locals' = [trained_before |-> is_trained,
                                      history |-> history, split_idx |-> split_idx,
                                      train_index |-> train_index,
                                      test_index |-> test_index,
                                      fitted_on |-> Series(train_index, y_train)]
                        /\ UNCHANGED <<model, is_trained, metrics, fits>>
                   [] args.fail \in {"predict", "metrics"} ->
                        /\ locals' = [trained_before |-> is_trained,
                                      history |-> history, split_idx |-> split_idx,
                                      train_index |-> train_index,
                                      test_index |-> test_index,
                                      fitted_on |-> Series(train_index, y_train)]
                        /\ model' = o.model
                        /\ is_trained' = TRUE
                        /\ fits' = fits + 1
                        /\ UNCHANGED metrics
                   [] OTHER ->
                        /\ locals' = [trained_before |-> is_trained,
                                      history |-> history, split_idx |-> split_idx,
                                      train_index |-> train_index,
                                      test_index |-> test_index,
                                      fitted_on |-> Series(train_index, y_train)]
                        /\ TrainEffect(o)
    /\ UNCHANGED <<args, market_prices, engine, spot_reference>>

NextTraining == GetHybridHistory \/ TrainOnHistory

SpecTraining == InitTraining /\ [][NextTraining]_vars

-----------------------------------------------------------------------------
(* Concurrent pricing runs (src/app.py, "if run_btn:"): every run builds    *)
(* its own ElectricityPricingEngine and makes its two forecasting calls,    *)
(* compute_sourcing_cost and then generate_hpfc, on it.  In this            *)
(* specification op, locals, ret and engine are indexed by run, and the     *)
(* forecaster fields by forecaster instance.                                 *)

MaxRuns == 2

Runs == 1..MaxRuns

(* instance i of a store of per-instance fields set to v                    *)
Put(store, i, v) ==
    [k \in 1..(IF i > Len(store) THEN i ELSE Len(store)) |->
        IF k = i THEN v ELSE store[k]]

SharedForecaster(instances) == 1

(* self.forecaster = MLPriceForecaster(...): a new object, distinct from    *)
(* every forecaster that exists                                             *)
NewForecaster(instances) == Len(instances) + 1

InitRuns ==
    /\ op = [r \in Runs |-> "start"]
    /\ args = [year |-> 2026]
    /\ ret = [r \in Runs |-> None]
    /\ locals = [r \in Runs |-> 0]
    /\ market_prices \in {[CAL_BASE |-> v] : v \in CalBaseValues}
    /\ engine = [r \in Runs |-> 0]
    /\ spot_reference = <<>>
    /\ is_trained = <<>>
    /\ model = <<>>
    /\ metrics = <<>>
    /\ fits = <<>>

(* pricing_engine = ElectricityPricingEngine(MARKET_PRICES)                 *)
RunConstruct(r) ==
    /\ op[r] = "start"
    /\ LET f == NewForecaster(is_trained)
       IN  /\ engine' = [engine EXCEPT ![r] = f]
           /\ spot_reference' = Put(spot_reference, f, AnchorOf(market_prices))
           /\ is_trained' = Put(is_trained, f, FALSE)
           /\ model' = Put(model, f, None)
           /\ metrics' = Put(metrics, f, EmptyDict)
           /\ fits' = Put(fits, f, 0)
    /\ op' = [op EXCEPT ![r] = "built"]
    /\ UNCHANGED <<args, ret, locals, market_prices>>

(* generate_forecast_curve: "if not self.is_trained: self.train()"          *)
RunCheckTrained(r) ==
    /\ op[r] \in {"built", "priced"}
    /\ op' = [op EXCEPT ![r] = IF is_trained[engine[r]] THEN "predicting"
                                ELSE "training"]
    /\ UNCHANGED <<args, ret, locals, fvars>>

(* train(): self.model.fit(...); self.is_trained = True                     *)
RunFit(r) ==
    /\ op[r] = "training"
    /\ \E o \in TrainOutcomes :
           /\ model' = [model EXCEPT ![engine[r]] = o.model]
           /\ locals' = [locals EXCEPT ![r] = o]
    /\ is_trained' = [is_trained EXCEPT ![engine[r]] = TRUE]
    /\ fits' = [fits EXCEPT ![engine[r]] = @ + 1]
    /\ op' = [op EXCEPT ![r] = "fitted"]
    /\ UNCHANGED <<args, ret, market_prices, engine, spot_reference, metrics>>

(* train(): self.metrics = {...}                                            *)
RunStoreMetrics(r) ==
    /\ op[r] = "fitted"
    /\ metrics' = [metrics EXCEPT ![engine[r]] =
                       MetricsOf(locals[r].rmse_train, locals[r].rmse_test)]
    /\ locals' = [locals EXCEPT ![r] = 0]
    /\ op' = [op EXCEPT ![r] = "predicting"]
    /\ UNCHANGED <<args, ret, market_prices, engine, spot_reference, is_trained,
                   model, fits>>

(* the rest of generate_forecast_curve: predict on the fitted model and     *)
(* calibrate; the first call of a run is compute_sourcing_cost's, the       *)
(* second the run's own generate_hpfc                                       *)
RunPredict(r) ==
    /\ op[r] = "predicting"
    /\ ret' = [ret EXCEPT ![r] =
                   [forecaster |-> engine[r],
                    curve |-> IF model[engine[r]] = None THEN None
                              ELSE ForecastCurve(model[engine[r]],
                                                 spot_reference[engine[r]],
                                                 args.year)]]
    /\ op' = [op EXCEPT ![r] = IF ret[r] = None THEN "priced" ELSE "done"]
    /\ UNCHANGED <<args, locals, fvars>>

NextRuns ==
    \E r \in Runs :
        \/ RunConstruct(r)
        \/ RunCheckTrained(r)
        \/ RunFit(r)
        \/ RunStoreMetrics(r)
        \/ RunPredict(r)

SpecRuns == InitRuns /\ [][NextRuns]_vars

-----------------------------------------------------------------------------
(* Properties of the pricing engine and the forecaster.                     *)

CurveDone == op = "generate_forecast_curve"

HpfcDone == op = "generate_hpfc"

SourcingDone == op = "compute_sourcing_cost"

(* hour in [8, 20) on a weekday                                             *)
ClaimedPeak(t) == (t % 24) \in 8..19 /\ DayOfWeek(t) \in 0..4

SumOver(I, f(_)) == SumSeq([k \in 1..Len(SortedSeq(I)) |-> f(SortedSeq(I)[k])])

(* C2: compute_sourcing_cost returns total_volume = sum of load,            *)
(* peak_volume = sum of load over the peak hours (hour in [8,20) on a       *)
(* weekday), total_cost = sum of load[t] x hpfc[t] with hpfc the curve      *)
(* generate_hpfc yields for exactly the load curve's timestamps, and        *)
(* weighted_average_price = total_cost / total_volume when total_volume > 0, *)
(* each rounded to 2 decimals.                                               *)
C2_SourcingCost ==
    SourcingDone =>
        LET l == args.load_curve
            h == locals.hpfc
            I == DOMAIN l.values
            LoadAt(i) == l.values[i]
            CostAt(i) == RMul(l.values[i], h.values[i])
            total == SumOver(I, LoadAt)
            cost == SumOver(I, CostAt)
        IN  /\ h = generate_hpfc(model, spot_reference, l.index)
            /\ h.index = l.index
            /\ ret.total_volume_mwh = Round(total, 2)
            /\ ret.peak_volume_mwh =
                   Round(SumOver({i \in I : ClaimedPeak(l.index[i])}, LoadAt), 2)
            /\ ret.total_commodity_cost = Round(cost, 2)
            /\ RLt(Zero, total) =>
                   ret.weighted_average_price = Round(RDiv(cost, total), 2)

C2_Witness ==
    /\ SourcingDone
    /\ RLt(Zero, ret.peak_volume_mwh)
    /\ RLt(ret.peak_volume_mwh, ret.total_volume_mwh)
    /\ \E i \in DOMAIN locals.hpfc.values :
           locals.hpfc.values[i] # locals.hpfc.values[1]
    /\ ret.weighted_average_price # RDiv(ret.total_commodity_cost, ret.total_volume_mwh)

Unclipped == \A i \in DOMAIN locals.predicted_prices :
                 RLe(Zero, RAdd(locals.predicted_prices[i], locals.adjustment))

(* C5 as stated: on an already trained forecaster, for any anchor and any   *)
(* target year, every call of generate_forecast_curve returns a curve whose *)
(* mean equals the anchor.                                                   *)
C5_Original ==
    (CurveDone /\ locals.trained_before) => SeriesMean(ret) = spot_reference

(* C5 amended: the mean of the returned curve equals the anchor whenever no *)
(* shifted prediction is negative, i.e. the clip at zero changes nothing;   *)
(* when the clip binds the mean is above the anchor.  This holds on every    *)
(* call made on a trained forecaster, so on two successive ones.             *)
C5_MeanMatchesAnchorUnlessClipped ==
    (CurveDone /\ locals.trained_before) =>
        /\ Unclipped => SeriesMean(ret) = spot_reference
        /\ ~Unclipped => RLt(spot_reference, SeriesMean(ret))

C5_Witness ==
    /\ CurveDone
    /\ locals.trained_before
    /\ Unclipped
    /\ SeriesMean(ret) = spot_reference
    /\ \E i \in DOMAIN ret.values : ret.values[i] # ret.values[1]

NonEmptyCall ==
    \/ op = "generate_forecast_curve"
    \/ op = "generate_hpfc" /\ args.dates # <<>>
    \/ op = "compute_sourcing_cost" /\ args.load_curve.index # <<>>

(* C6: over any sequence of generate_forecast_curve, generate_hpfc          *)
(* (non-empty request) and compute_sourcing_cost calls on one engine, a     *)
(* call runs train() if and only if the forecaster is UNTRAINED, so training *)
(* has run exactly once after any such call, during the first one, and a    *)
(* call on a trained forecaster leaves is_trained, the fitted model and the *)
(* stored metrics unchanged.                                                 *)
C6_TrainsExactlyOnce ==
    [][ NonEmptyCall' =>
          /\ is_trained' /\ fits' = 1
          /\ (fits' = fits + 1) <=> ~is_trained
          /\ is_trained => (model' = model /\ metrics' = metrics /\ fits' = fits)
      ]_vars

C6_Witness ==
    /\ NonEmptyCall
    /\ locals.trained_before
    /\ is_trained
    /\ fits = 1

(* C7: the state of a forecaster instance only moves UNTRAINED -> TRAINED   *)
(* and TRAINED is terminal: on a trained instance no operation re-fits the  *)
(* model or replaces the metrics.                                            *)
C7_TrainedIsTerminal ==
    [][ (is_trained /\ engine' = engine) =>
            (is_trained' /\ model' = model /\ metrics' = metrics /\ fits' = fits)
      ]_vars

(* C8: generate_hpfc returns a series indexed by exactly the requested      *)
(* timestamps (same length, same order); each value is the value of the     *)
(* full-year forecast of the calendar year of the first requested timestamp *)
(* at a nearest timestamp of that forecast, and a requested timestamp that   *)
(* is one of the forecast's timestamps gets the value of that timestamp.     *)
C8_HpfcOnRequestedTimestamps ==
    (HpfcDone /\ args.dates # <<>>) =>
        LET d == args.dates
            curve == ForecastCurve(model, spot_reference, Year(d[1]))
        IN  /\ ret.index = d
            /\ Len(ret.values) = Len(d)
            /\ \A i \in DOMAIN d :
                   \E j \in DOMAIN curve.index :
                       /\ \A k \in DOMAIN curve.index :
                              Abs(curve.index[j] - d[i]) <= Abs(curve.index[k] - d[i])
                       /\ ret.values[i] = curve.values[j]
            /\ \A i \in DOMAIN d : \A j \in DOMAIN curve.index :
                   d[i] = curve.index[j] => ret.values[i] = curve.values[j]

C8_Witness ==
    /\ HpfcDone
    /\ Len(args.dates) = 2
    /\ Year(args.dates[1]) = 2027
    /\ Year(args.dates[2]) = 2026
    /\ ret.values[1] # ret.values[2]
    /\ ret.values[2] = ForecastCurve(model, spot_reference, 2027).values[1]
    /\ ret.values[2] # ForecastCurve(model, spot_reference, 2026).values[
                          Nearest(Dates(2026), args.dates[2])]

(* C14: every value of the curve generate_forecast_curve returns, and so    *)
(* every value of an HPFC generate_hpfc returns, is >= 0, for every anchor  *)
(* (anchors <= 0 included) and every raw model prediction.                  *)
C14_PricesNonNegative ==
    (CurveDone \/ HpfcDone) =>
        \A i \in DOMAIN ret.values : RLe(Zero, ret.values[i])

C14_Witness ==
    /\ CurveDone
    /\ RLt(spot_reference, Zero)
    /\ \E i \in DOMAIN ret.values :
           /\ RLt(RAdd(locals.predicted_prices[i], locals.adjustment), Zero)
           /\ ret.values[i] = Zero
    /\ \E i \in DOMAIN ret.values : RLt(Zero, ret.values[i])

(* C15: compute_sourcing_cost on a load curve whose total volume is 0       *)
(* returns weighted_average_price = 0.0 and total_commodity_cost = 0.0,     *)
(* without a division error.                                                *)
C15_ZeroVolumeSourcing ==
    (SourcingDone /\ SeriesSum(args.load_curve) = Zero) =>
        /\ ret.weighted_average_price = Zero
        /\ ret.total_commodity_cost = Zero

C15_Witness ==
    /\ SourcingDone
    /\ ~IsEmpty(args.load_curve)
    /\ SeriesSum(args.load_curve) = Zero
    /\ \E i \in DOMAIN locals.hpfc.values : RLt(Zero, locals.hpfc.values[i])
    /\ ret.weighted_average_price = Zero
    /\ ret.total_volume_mwh = Zero

(* C16: generate_hpfc called with an empty timestamp sequence returns an    *)
(* empty series, and leaves the forecaster in the state it was in: no       *)
(* training is triggered.                                                   *)
C16_EmptyRequest ==
    [][ (op' = "generate_hpfc" /\ args'.dates = <<>>) =>
          /\ ret' = EmptySeries
          /\ UNCHANGED <<is_trained, model, metrics, fits, spot_reference>>
      ]_vars

C16_Witness ==
    /\ HpfcDone
    /\ args.dates = <<>>
    /\ ret = EmptySeries
    /\ ~is_trained
    /\ fits = 0

(* day of the week counted from the known Thursday 2026-01-01, Monday = 0   *)
ClaimedDayOfWeek(t) == (t \div 24 + 3) % 7

(* C20: for every timestamp the encoder's is_peak is 1 exactly when the     *)
(* hour is in [8,20) and day_of_week < 5 (0 at hour 20 and for every        *)
(* weekend hour), is_weekend is 1 exactly when day_of_week is 5 or 6, and   *)
(* the peak classification the pricing engine uses for peak_volume is the   *)
(* same predicate.                                                          *)
C20_PeakAndWeekendFlags ==
    /\ op = "create_features" =>
           \A i \in DOMAIN args.dates :
               LET t == args.dates[i]
               IN  /\ ret[i].is_peak \in {0, 1}
                   /\ ret[i].is_weekend \in {0, 1}
                   /\ ret[i].is_peak = 1 <=>
                          ((t % 24) \in 8..19 /\ ClaimedDayOfWeek(t) < 5)
                   /\ ret[i].is_weekend = 1 <=> ClaimedDayOfWeek(t) \in {5, 6}
                   /\ ret[i].is_peak = 1 <=> IsPeak(t)
    /\ op = "is_peak" =>
           \A i \in DOMAIN args.dates :
               LET t == args.dates[i]
               IN  /\ ret[i] <=> ((t % 24) \in 8..19 /\ ClaimedDayOfWeek(t) < 5)
                   /\ ret[i] <=> (Features(t).is_peak = 1)

C20_Witness ==
    /\ op = "create_features"
    /\ args.dates[1] % 24 = 20
    /\ ClaimedDayOfWeek(args.dates[1]) = 4
    /\ ret[1].is_peak = 0
    /\ ret[1].is_weekend = 0

RunDone == op = "execute_pricing"

(* C12: the final price of a run equals weighted_average_price +            *)
(* profiling_cost + volume_risk_premium + grid_fees + taxes + margin, with  *)
(* grid_fees = 12.50 + 8.00, taxes = 3.50 + 2.00 and margin = 2.50 fixed,   *)
(* and no other term or rescaling; it is a function of those inputs alone.  *)
C12_FinalPriceIsTheSum ==
    RunDone =>
        /\ ret.grid_fees = RAdd(Rat(1250, 100), Rat(800, 100))
        /\ ret.taxes = RAdd(Rat(350, 100), Rat(200, 100))
        /\ ret.margin = Rat(250, 100)
        /\ ret.final_price =
               RAdd(locals.pricing_result.weighted_average_price,
                    RAdd(locals.profiling_cost,
                         RAdd(locals.volume_risk, Rat(2850, 100))))
        /\ locals.pricing_result = SourcingCost(locals.load_curve, locals.hpfc)
        /\ locals.profiling_cost =
               calculate_profiling_cost(locals.load_curve, locals.hpfc)
        /\ locals.volume_risk =
               calculate_volume_risk_premium(
                   locals.pricing_result.total_volume_mwh, Rat(25, 100)).value

C12_Witness ==
    /\ RunDone
    /\ args.profile_type = "OFFICE_BUILDING"
    /\ locals.profiling_cost # Zero
    /\ RLt(Zero, locals.pricing_result.weighted_average_price)
    /\ RLt(RAdd(locals.pricing_result.weighted_average_price, Rat(2850, 100)),
           ret.final_price)

ClaimedLeap(y) == y % 4 = 0 /\ (y % 100 # 0 \/ y % 400 = 0)

ClaimedHours(y) == IF ClaimedLeap(y) THEN 8784 ELSE 8760

HourlyYear(seq, y) ==
    /\ Len(seq) = ClaimedHours(y)
    /\ \A i \in 1..(Len(seq) - 1) : seq[i + 1] = seq[i] + 1
    /\ Hour(seq[1]) = 0
    /\ DayOfYear(seq[1]) = 1
    /\ \A i \in {1, Len(seq)} : Year(seq[i]) = y

(* C21: for every calendar year Y the generator holds one timestamp for     *)
(* every hour of Y (8760, 8784 in a leap year), strictly increasing by one  *)
(* hour with no duplicates, and the forecast curve of Y is built on the     *)
(* identical timestamps, so load and price meet on matching timestamps.     *)
C21_FullHourlyCalendar ==
    /\ op = "construct_generator" =>
           /\ HourlyYear(ret.dates, args.year)
           /\ ret.n_hours = ClaimedHours(args.year)
           /\ ret.dates = FutureDates(args.year)
    /\ op = "future_dates" =>
           /\ HourlyYear(ret, args.year)
           /\ ret = GeneratorDates(args.year)

C21_Witness ==
    /\ op = "construct_generator"
    /\ args.year = 2028
    /\ ret.n_hours = 8784
    /\ ret.dates[8784] = ret.dates[1] + 8783

TrainDone == op = "train"

FitReached == TrainDone /\ args.fail \notin {"history", "features"}

HistoryDone == op = "get_hybrid_history"

NoMissing(s) == \A i \in DOMAIN s.values : s.values[i] # NaN

StrictlyIncreasing(index) ==
    \A i \in 1..(Len(index) - 1) : index[i] < index[i + 1]

(* C22: train() splits the time-ordered history, without shuffling, at      *)
(* index floor(f x N) with f between 0.8 and 0.9: the training window is    *)
(* the leading prefix, the held-out window the remaining suffix, the two    *)
(* are disjoint and cover the history, every training timestamp is earlier  *)
(* than every held-out timestamp, and the model is fitted on the training   *)
(* window only.                                                             *)
C22_ChronologicalSplit ==
    FitReached =>
        LET h == locals.history
            n == Len(h.index)
            k == Len(locals.train_index)
        IN  /\ (8 * n) \div 10 <= k
            /\ k <= (9 * n) \div 10
            /\ k = locals.split_idx
            /\ locals.train_index = [i \in 1..k |-> h.index[i]]
            /\ locals.test_index = [i \in 1..(n - k) |-> h.index[k + i]]
            /\ Range(locals.train_index) \cap Range(locals.test_index) = {}
            /\ \A i \in DOMAIN locals.train_index :
                   \A j \in DOMAIN locals.test_index :
                       locals.train_index[i] < locals.test_index[j]
            /\ locals.fitted_on.index = [i \in 1..k |-> h.index[i]]
            /\ locals.fitted_on.values = [i \in 1..k |-> h.values[i]]

C22_Witness ==
    /\ TrainDone
    /\ ~ret.raised
    /\ is_trained
    /\ args.variant = "synthetic"
    /\ Len(locals.history.index) = MaxHistory
    /\ Len(locals.train_index) = (9 * MaxHistory) \div 10
    /\ Len(locals.test_index) >= 1

(* C23: if any step of train() fails, the failure reaches the caller and    *)
(* the forecaster's state is unchanged by the failed call: it stays         *)
(* UNTRAINED with no stored metrics, and a forecaster is never TRAINED      *)
(* without its metrics.                                                      *)
C23_FailedTrainingLeavesUntrained ==
    /\ (TrainDone /\ ret.raised) =>
           /\ ~is_trained
           /\ model = None
           /\ metrics = EmptyDict
    /\ (TrainDone /\ is_trained) => metrics # EmptyDict

(* C24: if the real-price fetch returns an empty series, the hybrid history *)
(* builder does not fail: the history is the synthetic era followed by      *)
(* generated prices for the whole real era, it has no missing value, and    *)
(* training on it completes to TRAINED.                                     *)
C24_EmptyFetchFallsBack ==
    /\ (HistoryDone /\ IsEmpty(args.fetched)) =>
           /\ ret.index = args.series_syn.index \o args.fallback.index
           /\ ret.values = args.series_syn.values \o args.fallback.values
           /\ NoMissing(ret)
    /\ (TrainDone /\ args.variant = "hybrid" /\ IsEmpty(args.fetched)
                  /\ args.fail = "none") =>
           /\ locals.history.index = args.series_syn.index \o args.fallback.index
           /\ NoMissing(locals.history)
           /\ ~ret.raised
           /\ is_trained
           /\ metrics # EmptyDict

C24_Witness ==
    /\ TrainDone
    /\ args.variant = "hybrid"
    /\ IsEmpty(args.fetched)
    /\ is_trained
    /\ Len(locals.history.index) = MaxSyn + Len(FallbackEra.index)
    /\ Len(locals.train_index) = (8 * Len(locals.history.index)) \div 10

(* C25: in the hybrid history, a timestamp that occurs both in the          *)
(* synthetic era and in the real series holds the real value, and the       *)
(* merged history has strictly increasing timestamps, without duplicates.   *)
C25_RealValueWinsOnJoin ==
    HistoryDone =>
        /\ StrictlyIncreasing(ret.index)
        /\ \A t \in Range(args.series_syn.index) \cap Range(locals.series_real.index) :
               ValueAt(ret, t) \in
                   {locals.series_real.values[j] :
                       j \in PositionsOf(locals.series_real, t)}

(* C26: for INDUSTRY_24_7 the profile is the real-shape override, named     *)
(* 'Real Load (MWh)' and shown as 'REAL DATA FEED: ELIA API CONNECTED',     *)
(* only when a pattern was actually obtained from the ELIA API; when the    *)
(* API call fails or returns nothing the profile is the synthetic noise     *)
(* shape named 'Synthetic Load'.                                            *)
C26_RealBadgeOnlyWithApiData ==
    (RunDone /\ args.profile_type = "INDUSTRY_24_7") =>
        /\ locals.load_curve.name = Real_Load_Name => args.api.ok
        /\ ret.badge = "REAL DATA FEED: ELIA API CONNECTED" => args.api.ok
        /\ ~args.api.ok => locals.load_curve.name = Synthetic_Load_Name

(* C27: for OFFICE_BUILDING an hour carries the noisy working-hours signal  *)
(* if and only if it is a peak hour (hour in [8,20) on a weekday); every    *)
(* other hour carries the flat residual level 0.1, before normalization.    *)
C27_OfficeSignalOnPeakHours ==
    op = "office_shape" =>
        \A i \in DOMAIN args.dates :
            LET t == args.dates[i]
                peak == (t % 24) \in 8..19 /\ ClaimedDayOfWeek(t) < 5
            IN  /\ peak => ret[i] = args.noise[i]
                /\ ~peak => ret[i] = Rat(1, 10)

(* C29: the calibration anchor is the CAL_BASE value of the market-anchor   *)
(* mapping (95.5 when the key is absent) read when the engine is            *)
(* constructed: an override made before construction is the one used, and   *)
(* overriding the mapping afterwards changes neither the anchor nor the     *)
(* curve any later generate_hpfc / compute_sourcing_cost call on that       *)
(* engine returns.                                                          *)
ClaimedAnchor(mapping) ==
    IF "CAL_BASE" \in DOMAIN mapping THEN mapping["CAL_BASE"] ELSE Rat(955, 10)

C29_AnchorReadAtConstruction ==
    [][ /\ op' = "construct" =>
               spot_reference' = ClaimedAnchor(market_prices)
        /\ (engine > 0 /\ op' # "construct") =>
               spot_reference' = spot_reference
        /\ op' = "generate_hpfc" =>
               ret' = generate_hpfc(model', spot_reference, args'.dates)
        /\ op' = "compute_sourcing_cost" =>
               locals'.hpfc = generate_hpfc(model', spot_reference,
                                            args'.load_curve.index)
      ]_vars

(* a curve was served on an anchor that the mapping no longer holds         *)
C29_Witness ==
    /\ op = "generate_hpfc"
    /\ args.dates # <<>>
    /\ ClaimedAnchor(market_prices) # spot_reference
    /\ ret # generate_hpfc(model, ClaimedAnchor(market_prices), args.dates)

(* C30: for every load curve with non-negative values and positive total    *)
(* volume, the weighted_average_price of compute_sourcing_cost, before      *)
(* rounding, lies between the minimum and the maximum HPFC value over the   *)
(* load curve's timestamps, hence is finite and >= 0.                       *)
NonNegativeLoad ==
    \A i \in DOMAIN args.load_curve.values :
        /\ args.load_curve.values[i] # NaN
        /\ RLe(Zero, args.load_curve.values[i])

C30_AveragePriceWithinCurve ==
    (SourcingDone /\ NonNegativeLoad /\ RLt(Zero, SeriesSum(args.load_curve))) =>
        /\ locals.hpfc.index = args.load_curve.index
        /\ locals.avg_price # NaN
        /\ \E i \in DOMAIN locals.hpfc.values :
               RLe(locals.hpfc.values[i], locals.avg_price)
        /\ \E i \in DOMAIN locals.hpfc.values :
               RLe(locals.avg_price, locals.hpfc.values[i])
        /\ RLe(Zero, locals.avg_price)
        /\ ret.weighted_average_price = Round(locals.avg_price, 2)

(* an average strictly inside a curve that is not flat, of a load that is   *)
(* not flat either                                                          *)
C30_Witness ==
    /\ SourcingDone
    /\ NonNegativeLoad
    /\ RLt(Zero, SeriesSum(args.load_curve))
    /\ \E i, j \in DOMAIN args.load_curve.values :
           RLt(Zero, args.load_curve.values[i])
           /\ RLt(args.load_curve.values[i], args.load_curve.values[j])
    /\ \E i \in DOMAIN locals.hpfc.values :
           RLt(locals.hpfc.values[i], locals.avg_price)
    /\ \E i \in DOMAIN locals.hpfc.values :
           RLt(locals.avg_price, locals.hpfc.values[i])

(* C28: every pricing run constructs its own engine and every engine its    *)
(* own forecaster, so under any interleaving of concurrent runs no          *)
(* forecaster is used by two runs while it is being trained: a run only     *)
(* ever trains its own forecaster or reads one that is already TRAINED.     *)
InTrain(r) == op[r] \in {"training", "fitted"}

Holds(r) == op[r] \in {"built", "training", "fitted", "predicting", "priced"}

C28_ForecasterNotShared ==
    \A r \in Runs :
        /\ Holds(r) => engine[r] \in DOMAIN is_trained
        /\ InTrain(r) =>
               \A q \in Runs \ {r} : Holds(q) => engine[q] # engine[r]
        /\ op[r] = "predicting" =>
               /\ is_trained[engine[r]]
               /\ model[engine[r]] # None
        /\ op[r] \in {"priced", "done"} =>
               /\ ret[r].forecaster = engine[r]
               /\ ret[r].curve # None

(* two runs are inside train() at the same time                             *)
C28_Witness ==
    /\ op[1] = "training"
    /\ op[2] = "fitted"
    /\ engine[1] # engine[2]
    /\ ~is_trained[engine[1]]
    /\ is_trained[engine[2]]

====
